---- MODULE Spec2Model ----
(***************************************************************************)
(* Model of homeassistant/components/notify/apns.py: the APNS notification *)
(* service.  It keeps a registry of devices (self.devices), persisted in a *)
(* YAML file, a map of tracked entity states (self.device_states) fed by   *)
(* state-change callbacks, and sends a message to the registered devices,  *)
(* optionally only to those whose tracked entity is in a given state.      *)
(*                                                                         *)
(* Python values are tagged records [t, v]: t is the Python type and v the *)
(* characters of the value, so that None, the string "1" and the integer 1 *)
(* are three different values and str() is a real conversion.  Text (file  *)
(* content, entity ids) is a sequence of one-character strings.            *)
(*                                                                         *)
(* The host serves its requests (register, send_message) one at a time;    *)
(* the state feed calls the listener at any time, also between two         *)
(* iterations of the loop of send_message, and only for the entities it    *)
(* was subscribed to by the constructor.                                   *)
(***************************************************************************)
EXTENDS Integers, Sequences, FiniteSets, Bags, TLC

VARIABLES
    devices,        \* self.devices: push id -> ApnsDevice
    device_states,  \* self.device_states: entity id -> str(state)
    yaml_file,      \* the characters of the file at self.yaml_path
    tracking_ids,   \* the entity ids handed to track_state_change
    reg,            \* the last register call: its data, the keys before it, its
                    \* result and file opens; tick alternates call after call
    last_to_s,      \* entity id -> to_s.state of its latest callback
    send_pc,        \* send_message: "idle", "loop" (in the for) or "done"
    device_state,   \* send_message: kwargs.get(ATTR_TARGET)
    todo,           \* send_message: the keys of self.devices still to visit
    gateway,        \* the bag of notifications handed to apns.gateway_server
    send_ret,       \* what the last send_message returned
    is_file,        \* os.path.isfile(self.yaml_path)
    life,           \* the service: "new" (before __init__), "running",
                    \* "written" (stopped after write_devices), or the
                    \* name of the error that __init__ raised
    loaded          \* the registry __init__ loaded from the file

vars == <<devices, device_states, yaml_file, tracking_ids, reg, last_to_s,
          send_pc, device_state, todo, gateway, send_ret, is_file, life,
          loaded>>

-----------------------------------------------------------------------------
(* Python values *)

PyNone == [t |-> "none", v |-> <<>>]
PyStr(chars) == [t |-> "str", v |-> chars]
PyInt(digits) == [t |-> "int", v |-> digits]

\* str(x): a string is itself, an integer its digits, None the text None.
str(x) ==
    IF x.t = "none" THEN PyStr(<<"N", "o", "n", "e">>) ELSE PyStr(x.v)

\* dict.get(key): the value, or None when the key is absent.
dict_get(d, key) == IF key \in DOMAIN d THEN d[key] ELSE PyNone

\* d[key] = value on a dict.
dict_set(d, key, value) ==
    [k \in DOMAIN d \cup {key} |-> IF k = key THEN value ELSE d[k]]

\* The orders in which a dict with the keys S can be iterated.
Orders(S) ==
    {o \in [1..Cardinality(S) -> S] : \A i, j \in 1..Cardinality(S) :
                                          o[i] = o[j] => i = j}

-----------------------------------------------------------------------------
(* class ApnsDevice *)

DEVICE_TRACKER_DOMAIN ==
    <<"d", "e", "v", "i", "c", "e", "_", "t", "r", "a", "c", "k", "e", "r">>

ApnsDevice(push_id, name, tracking_device_id) ==
    [device_push_id |-> push_id,
     device_name |-> name,
     tracking_id |-> tracking_device_id]

full_tracking_device_id(device) ==
    DEVICE_TRACKER_DOMAIN \o <<".">> \o device.tracking_id.v

\* __eq__ / __ne__: push_id and name, not the tracking id.
ApnsDevice_eq(a, b) ==
    a.device_push_id = b.device_push_id /\ a.device_name = b.device_name

-----------------------------------------------------------------------------
(* write_device, write_devices *)

NameKey == <<"n", "a", "m", "e", ":", " ">>
TrackingKey ==
    <<"t", "r", "a", "c", "k", "i", "n", "g", "_", "d", "e", "v", "i", "c",
      "e", "_", "i", "d", ":", " ">>

\* separator.join(attributes)
RECURSIVE join(_, _)
join(separator, attributes) ==
    IF attributes = <<>> THEN <<>>
    ELSE IF Len(attributes) = 1 THEN attributes[1]
    ELSE attributes[1] \o separator \o join(separator, Tail(attributes))

\* The characters write_device(out, device) writes to out.
write_device(device) ==
    LET named ==
            IF device.device_name # PyNone
            THEN <<NameKey \o str(device.device_name).v>> ELSE <<>>
        attributes ==
            IF device.tracking_id # PyNone
            THEN Append(named, TrackingKey \o str(device.tracking_id).v)
            ELSE named
    IN  device.device_push_id.v \o <<":", " ", "{">>
            \o (IF Len(attributes) > 0
                THEN join(<<",", " ">>, attributes) ELSE <<>>)
            \o <<"}", "\n">>

\* The devices written one after the other, in the given order of the keys.
RECURSIVE write_in_order(_, _)
write_in_order(devs, order) ==
    IF order = <<>> THEN <<>>
    ELSE write_device(devs[Head(order)]) \o write_in_order(devs, Tail(order))

\* The contents write_devices can leave in the file (opened 'w+', so
\* truncated): one for each order in which self.devices.items() can iterate.
write_devices(devs) ==
    {write_in_order(devs, order) : order \in Orders(DOMAIN devs)}

-----------------------------------------------------------------------------
(* register *)

\* What a register call leaves: the registry, the file, the modes of the
\* open() calls it made and what it returned.
Outcome(devs, content, opens, ret) ==
    [devices |-> devs, yaml_file |-> content, opens |-> opens, ret |-> ret]

\* Faulty variant: the tracking id of the registered device is forgotten.
current_tracking_id_mutant_reset(devs, push_id) == PyNone

\* current_tracking_id: the tracking id of the device already registered
\* under push_id, None when there is none.
current_tracking_id(devs, push_id) ==
    IF push_id \notin DOMAIN devs THEN PyNone ELSE devs[push_id].tracking_id

\* Faulty variant: a new device makes write_devices() rewrite the file.
register_new_mutant_rewrite(devs, content, device) ==
    LET added == dict_set(devs, device.device_push_id, device)
    IN  {Outcome(added, c, <<"w+">>, "None") : c \in write_devices(added)}

\* Faulty variant: the device is stored under its name.
register_new_mutant_key_by_name(devs, content, device) ==
    {Outcome(dict_set(devs, device.device_name, device),
             content \o write_device(device), <<"a">>, "None")}

\* The branch of register for a push id that is not registered: store the
\* device, open the file 'a', write the one device, bare return.
register_new(devs, content, device) ==
    {Outcome(dict_set(devs, device.device_push_id, device),
             content \o write_device(device), <<"a">>, "None")}

\* Faulty variant: the device is stored and the file rewritten without the
\* comparison with the current device.
register_known_mutant_always_write(devs, content, device) ==
    LET replaced == dict_set(devs, device.device_push_id, device)
    IN  {Outcome(replaced, c, <<"w+">>, "True") : c \in write_devices(replaced)}

\* The rest of register, for a push id that is registered: when the new
\* device differs from the current one, store it and write_devices();
\* return True.
register_known(devs, content, device) ==
    IF ~ApnsDevice_eq(device, devs[device.device_push_id])
    THEN LET replaced == dict_set(devs, device.device_push_id, device)
         IN  {Outcome(replaced, c, <<"w+">>, "True") :
                  c \in write_devices(replaced)}
    ELSE {Outcome(devs, content, <<>>, "True")}

\* Faulty variant: no return after the append, so that the new device, which
\* differs from the current device None, is written by write_devices() too.
register_mutant_fall_through(devs, content, push_id, device_name) ==
    LET device ==
            ApnsDevice(push_id, device_name, current_tracking_id(devs, push_id))
        added == dict_set(devs, push_id, device)
    IN  IF push_id = PyNone
        THEN {Outcome(devs, content, <<>>, "False")}
        ELSE IF push_id \notin DOMAIN devs
        THEN {Outcome(added, c, <<"a", "w+">>, "True") :
                  c \in write_devices(added)}
        ELSE register_known(devs, content, device)

\* Faulty variant: no check that push_id is given.
register_mutant_no_check(devs, content, push_id, device_name) ==
    LET device ==
            ApnsDevice(push_id, device_name, current_tracking_id(devs, push_id))
    IN  IF push_id \notin DOMAIN devs
        THEN register_new(devs, content, device)
        ELSE register_known(devs, content, device)

\* register(call) with call.data = {push_id, name}: the outcomes it can have
\* (one for each order of a write_devices).
register(devs, content, push_id, device_name) ==
    LET device ==
            ApnsDevice(push_id, device_name, current_tracking_id(devs, push_id))
    IN  IF push_id = PyNone
        THEN {Outcome(devs, content, <<>>, "False")}
        ELSE IF push_id \notin DOMAIN devs
        THEN register_new(devs, content, device)
        ELSE register_known(devs, content, device)

-----------------------------------------------------------------------------
(* state_changed_listener *)

\* The positions a write that fails can stop at: before the text, after one
\* of its lines but the last, or one character short of its end.
Cuts(text) ==
    {0} \cup {i \in 1..(Len(text) - 1) : text[i] = "\n"} \cup {Len(text) - 1}

\* What `with open(self.yaml_path, mode) as out:` and the writes in it can
\* leave when they raise an I/O error: open raises and the file is as it
\* was (no open is counted); or open succeeds, truncating the file when the
\* mode is 'w+', and the writes stop short of the end of the text.
failed_write(devs, content, text, mode) ==
    {Outcome(devs, content, <<>>, "IOError")}
    \cup {Outcome(devs,
                  (IF mode = "a" THEN content ELSE <<>>) \o SubSeq(text, 1, n),
                  <<mode>>, "IOError") : n \in Cuts(text)}

\* Faulty variant: the device is stored after the write, which raises.
register_fails_mutant_write_first(devs, content, push_id, device_name) ==
    IF push_id = PyNone THEN {}
    ELSE LET device == ApnsDevice(push_id, device_name,
                                  current_tracking_id(devs, push_id))
         IN  IF push_id \notin DOMAIN devs
             THEN failed_write(devs, content, write_device(device), "a")
             ELSE IF ~ApnsDevice_eq(device, devs[push_id])
             THEN UNION {failed_write(devs, content, text, "w+") :
                            text \in write_devices(devs)}
             ELSE {}

\* register(call) when its write to the file raises an I/O error: the
\* device is stored already (lines 164, 170), the error leaves register.
\* A call that writes nothing (no push id, a device that is no different)
\* has no such outcome.
register_fails(devs, content, push_id, device_name) ==
    IF push_id = PyNone THEN {}
    ELSE LET device == ApnsDevice(push_id, device_name,
                                  current_tracking_id(devs, push_id))
             stored == dict_set(devs, push_id, device)
         IN  IF push_id \notin DOMAIN devs
             THEN failed_write(stored, content, write_device(device), "a")
             ELSE IF ~ApnsDevice_eq(device, devs[push_id])
             THEN UNION {failed_write(stored, content, text, "w+") :
                            text \in write_devices(stored)}
             ELSE {}

\* Faulty variant: the state is stored as it comes, without str().
state_changed_listener_mutant_raw(states, entity_id, state) ==
    dict_set(states, entity_id, state)

\* self.device_states after state_changed_listener(entity_id, from_s, to_s),
\* state being to_s.state.
state_changed_listener(states, entity_id, state) ==
    dict_set(states, entity_id, str(state))

-----------------------------------------------------------------------------
(* send_message *)

\* Faulty variant: the tracked state is compared with the target itself.
should_send_mutant_no_str(device, target, states) ==
    IF target = PyNone THEN TRUE
    ELSE IF device.tracking_id # PyNone
    THEN dict_get(states, full_tracking_device_id(device)) = target
    ELSE FALSE

\* Faulty variant: str() is taken of the tracked state too, None included.
should_send_mutant_str_of_absent(device, target, states) ==
    IF target = PyNone THEN TRUE
    ELSE IF device.tracking_id # PyNone
    THEN str(dict_get(states, full_tracking_device_id(device))) = str(target)
    ELSE FALSE

\* Faulty variant: the tracking id is asked for before the target is.
should_send_mutant_tracked_only(device, target, states) ==
    IF device.tracking_id = PyNone THEN FALSE
    ELSE IF target = PyNone THEN TRUE
    ELSE dict_get(states, full_tracking_device_id(device)) = str(target)

\* Faulty variant: a device without tracking id is sent every message.
should_send_mutant_untracked_pass(device, target, states) ==
    IF target = PyNone \/ device.tracking_id = PyNone THEN TRUE
    ELSE dict_get(states, full_tracking_device_id(device)) = str(target)

\* Faulty variant: the message goes to the devices in another state.
should_send_mutant_other_state(device, target, states) ==
    IF target = PyNone THEN TRUE
    ELSE IF device.tracking_id # PyNone
    THEN dict_get(states, full_tracking_device_id(device)) # str(target)
    ELSE FALSE

\* Whether the body of the for loop calls send_notification for the device,
\* target being kwargs.get(ATTR_TARGET) and states self.device_states.
should_send(device, target, states) ==
    IF target = PyNone THEN TRUE
    ELSE IF device.tracking_id # PyNone
    THEN dict_get(states, full_tracking_device_id(device)) = str(target)
    ELSE FALSE

\* Faulty variant: a notification that fails ends the loop.
send_message_step_stops(devs, states, target, left, push_id, sent, outcome) ==
    LET sends == should_send(devs[push_id], target, states)
    IN  [todo |-> IF sends /\ outcome = "failed" THEN {} ELSE left \ {push_id},
         gateway |-> IF sends
                     THEN sent (+) SetToBag({[push_id |-> push_id,
                                              outcome |-> outcome]})
                     ELSE sent]

\* One iteration of the for loop, on the item push_id of the items left:
\* the items left after it and the bag of notifications the gateway has been
\* handed.  outcome is what becomes of the notification at the gateway;
\* send_notification returns nothing of it and the loop goes on.
send_message_step(devs, states, target, left, push_id, sent, outcome) ==
    [todo |-> left \ {push_id},
     gateway |-> IF should_send(devs[push_id], target, states)
                 THEN sent (+) SetToBag({[push_id |-> push_id,
                                          outcome |-> outcome]})
                 ELSE sent]

-----------------------------------------------------------------------------
(* The values the model draws from *)

MaxDevices == 2     \* registrations stop at this many devices

P == PyStr(<<"p">>)
Q == PyStr(<<"q">>)
R == PyStr(<<"r">>)
Al == PyStr(<<"a", "l">>)
Bo == PyStr(<<"b", "o">>)
TrackA == PyStr(<<"a">>)
TrackB == PyStr(<<"b">>)
Home == PyStr(<<"h", "o", "m", "e">>)
One == PyStr(<<"1">>)

\* call.data.get("push_id") and call.data.get("name") of a register call.
PushIds == {PyNone, PyStr(<<>>), P, R}
Names == {PyNone, Al}

\* to_s.state of a callback; kwargs.get(ATTR_TARGET) of a send_message.
States == {Home, One, PyInt(<<"1">>)}
Targets == {PyNone, PyInt(<<"1">>), PyStr(<<"N", "o", "n", "e">>)}
Outcomes == {"delivered", "failed"}

\* The registries the constructor can have loaded from the file.
LoadedRegistries ==
    {<<>>,
     (P :> ApnsDevice(P, Al, TrackA)),
     (P :> ApnsDevice(P, Al, TrackA)) @@ (Q :> ApnsDevice(Q, PyNone, PyNone)),
     (P :> ApnsDevice(P, PyNone, TrackA)) @@ (Q :> ApnsDevice(Q, Bo, TrackB)),
     (P :> ApnsDevice(P, Al, PyNone)) @@ (Q :> ApnsDevice(Q, Bo, TrackA))}

-----------------------------------------------------------------------------
(* The service *)

\* The value of reg when the last request was not a register call.
NoRegister ==
    [push_id |-> PyNone, name |-> PyNone, ret |-> "-", opens |-> <<>>,
     before |-> {}, tick |-> 0]

\* Faulty variant: the devices without tracking id are not left out.
subscription_mutant_all(devs) ==
    {full_tracking_device_id(devs[k]) : k \in DOMAIN devs}

\* tracking_ids, the entity ids __init__ hands to track_state_change: the
\* full tracking ids of the devices that have a tracking id.
subscription(devs) ==
    {full_tracking_device_id(devs[k]) :
        k \in {d \in DOMAIN devs : devs[d].tracking_id # PyNone}}

\* The least and the greatest of a set of numbers.
Min(S) == CHOOSE i \in S : \A j \in S : i <= j
Max(S) == CHOOSE i \in S : \A j \in S : j <= i

\* Where sub first starts in text, 0 when it does not occur: text.find(sub),
\* counted from 1.
first_of(at) == IF at = {} THEN 0 ELSE Min(at)
find(text, sub) ==
    first_of({i \in 1..(Len(text) - Len(sub) + 1) :
                 SubSeq(text, i, i + Len(sub) - 1) = sub})

\* text.split(sep), and the same when sep first starts at i.
RECURSIVE split(_, _), split_at(_, _, _)
split_at(text, sep, i) ==
    IF i = 0 THEN <<text>>
    ELSE <<SubSeq(text, 1, i - 1)>>
             \o split(SubSeq(text, i + Len(sep), Len(text)), sep)
split(text, sep) == split_at(text, sep, find(text, sep))

\* The mapping of a list of keyed values: of two values of a key the later
\* wins.
last_wins(pairs) ==
    [k \in {pairs[n].key : n \in DOMAIN pairs} |->
        pairs[Max({n \in DOMAIN pairs : pairs[n].key = k})].value]

\* One field of a record, `key: value`, the separator being at i.
field_at(field, i) ==
    IF i = 0 THEN [error |-> TRUE]
    ELSE [error |-> FALSE, key |-> SubSeq(field, 1, i - 1),
          value |-> PyStr(SubSeq(field, i + 2, Len(field)))]
parse_field(field) == field_at(field, find(field, <<":", " ">>))

\* The object of a record, from its fields as they were parsed.
object_of(parsed) ==
    IF \E n \in DOMAIN parsed : parsed[n].error THEN [error |-> TRUE]
    ELSE [error |-> FALSE, value |-> last_wins(parsed)]
parse_each(fields) == [n \in DOMAIN fields |-> parse_field(fields[n])]
parse_object(body) ==
    object_of(IF body = <<>> THEN <<>>
              ELSE parse_each(split(body, <<",", " ">>)))

\* One line of the file, `push id: {field, field}`: the push id with the
\* object of its fields; the object starts at i.
keyed(key, object) ==
    IF object.error THEN [error |-> TRUE]
    ELSE [error |-> FALSE, key |-> PyStr(key), value |-> object.value]
line_at(line, i) ==
    IF i = 0 \/ line[Len(line)] # "}" THEN [error |-> TRUE]
    ELSE keyed(SubSeq(line, 1, i - 1),
               parse_object(SubSeq(line, i + 3, Len(line) - 1)))
parse_line(line) == line_at(line, find(line, <<":", " ", "{">>))

\* load_yaml_config_file(path) on a file of this text: the mapping from the
\* push id of each line to the object of the line, or the error raised for
\* a text that is not such a mapping.  Empty lines are passed over; of two
\* lines for a push id the later wins.
parse_lines(all) ==
    [n \in {m \in DOMAIN all : all[m] # <<>>} |-> parse_line(all[n])]
mapping_of(parsed) ==
    IF \E n \in DOMAIN parsed : parsed[n].error
    THEN [error |-> "ConfigFormatError", conf |-> <<>>]
    ELSE [error |-> "-", conf |-> last_wins(parsed)]
load_yaml_config_file(text) == mapping_of(parse_lines(split(text, <<"\n">>)))

\* 'name' and 'tracking_device_id', the keys __init__ reads.
NameField == <<"n", "a", "m", "e">>
TrackingField ==
    <<"t", "r", "a", "c", "k", "i", "n", "g", "_", "d", "e", "v", "i", "c",
      "e", "_", "i", "d">>

\* The dict comprehension of __init__ over the items of the loaded mapping.
devices_of(conf) ==
    [k \in {str(key) : key \in DOMAIN conf} |->
        ApnsDevice(k,
            dict_get(conf[CHOOSE key \in DOMAIN conf : str(key) = k],
                     NameField),
            dict_get(conf[CHOOSE key \in DOMAIN conf : str(key) = k],
                     TrackingField))]

\* Faulty variant: a file that does not load gives an empty registry.
constructed_mutant_swallow(file) ==
    IF file.error # "-" THEN [error |-> "-", devices |-> <<>>]
    ELSE [error |-> "-", devices |-> devices_of(file.conf)]

\* self.devices as __init__ leaves it, or the error that leaves __init__,
\* file being what load_yaml_config_file gave or raised: the error is not
\* caught.
constructed(file) ==
    IF file.error # "-" THEN [error |-> file.error, devices |-> <<>>]
    ELSE [error |-> "-", devices |-> devices_of(file.conf)]

\* __init__ up to self.devices: an empty dict when os.path.isfile says no.
construct(file_there, text) ==
    IF ~file_there THEN [error |-> "-", devices |-> <<>>]
    ELSE constructed(load_yaml_config_file(text))

\* __init__ is over: the devices of the file (an empty registry when there
\* is no file), no state seen yet, and the entity ids of the devices that
\* have a tracking id given to track_state_change.
Init ==
    /\ devices \in LoadedRegistries
    /\ yaml_file \in write_devices(devices)
    /\ is_file \in {b \in BOOLEAN : devices # <<>> => b}
    /\ life = "running"
    /\ loaded = devices
    /\ tracking_ids = subscription(devices)
    /\ device_states = <<>>
    /\ last_to_s = <<>>
    /\ reg = NoRegister
    /\ send_pc = "idle"
    /\ device_state = PyNone
    /\ todo = {}
    /\ gateway = EmptyBag
    /\ send_ret = "-"

\* A name that reads as a name and a tracking id.
Injected == PyStr(Al.v \o <<",", " ">> \o TrackingKey \o TrackB.v)

\* The push ids and the names of the register calls made before a file is
\* loaded again.
LoadPushIds == {P, R}
LoadNames == {Al, Injected}

\* Files that are no mapping from push ids to objects: a record cut short,
\* a line that is no record, a field that has no value, and a record
\* followed by a line that is no record.
MalformedFiles ==
    {<<"p", ":", " ", "{", "n", "a", "m", "e", ":", " ", "a">>,
     <<"p", " ", "a", "l", "\n">>,
     <<"p", ":", " ", "{", "n", "a", "m", "e", "}", "\n">>,
     write_device(ApnsDevice(P, Al, TrackA)) \o <<"q", ":", " ", "{", "\n">>}

\* __init__ is yet to run: there is no file, or a file that write_devices
\* left, or a malformed file.
InitLoad ==
    /\ life = "new"
    /\ \/ is_file = FALSE /\ yaml_file = <<>>
       \/ /\ is_file = TRUE
          /\ yaml_file \in MalformedFiles
                 \cup UNION {write_devices(devs) : devs \in LoadedRegistries}
    /\ devices = <<>>
    /\ loaded = <<>>
    /\ tracking_ids = {}
    /\ device_states = <<>>
    /\ last_to_s = <<>>
    /\ reg = NoRegister
    /\ send_pc = "idle"
    /\ device_state = PyNone
    /\ todo = {}
    /\ gateway = EmptyBag
    /\ send_ret = "-"

\* The host constructs the service on the file: at its start, or again
\* after write_devices.  An error of __init__ is kept in life.
Construct ==
    /\ life \in {"new", "written"}
    /\ \E made \in {construct(is_file, yaml_file)} :
          /\ life' = IF made.error = "-" THEN "running" ELSE made.error
          /\ devices' = made.devices
          /\ loaded' = made.devices
          /\ tracking_ids' = subscription(made.devices)
    /\ device_states' = <<>>
    /\ last_to_s' = <<>>
    /\ reg' = NoRegister
    /\ send_pc' = "idle"
    /\ device_state' = PyNone
    /\ todo' = {}
    /\ gateway' = EmptyBag
    /\ send_ret' = "-"
    /\ UNCHANGED <<yaml_file, is_file>>

\* write_devices() on the registry as it is; the service is then stopped.
WriteDevices ==
    /\ life = "running"
    /\ send_pc # "loop"
    /\ yaml_file' \in write_devices(devices)
    /\ is_file' = TRUE
    /\ life' = "written"
    /\ UNCHANGED <<devices, device_states, tracking_ids, reg, last_to_s,
                   send_pc, device_state, todo, gateway, send_ret, loaded>>

\* The host calls register.  Requests are served one at a time, and the
\* record of the request before (the send_message variables) is dropped.
Register(push_id, device_name) ==
    /\ send_pc # "loop"
    /\ \/ push_id = PyNone
       \/ push_id \in DOMAIN devices
       \/ Cardinality(DOMAIN devices) < MaxDevices
    /\ life = "running"
    /\ \E r \in register(devices, yaml_file, push_id, device_name) :
          /\ devices' = r.devices
          /\ yaml_file' = r.yaml_file
          /\ is_file' = (is_file \/ r.opens # <<>>)
          /\ reg' = [push_id |-> push_id, name |-> device_name,
                     ret |-> r.ret, opens |-> r.opens,
                     before |-> DOMAIN devices, tick |-> 1 - reg.tick]
    /\ send_pc' = "idle"
    /\ device_state' = PyNone
    /\ gateway' = EmptyBag
    /\ send_ret' = "-"
    /\ UNCHANGED <<device_states, tracking_ids, last_to_s, todo, life, loaded>>

\* The state feed calls the listener for an entity it was subscribed to.
StateChanged(entity_id, state) ==
    /\ life = "running"
    /\ entity_id \in tracking_ids
    /\ device_states' = state_changed_listener(device_states, entity_id, state)
    /\ last_to_s' = dict_set(last_to_s, entity_id, state)
    /\ UNCHANGED <<devices, yaml_file, tracking_ids, reg, send_pc,
                   device_state, todo, gateway, send_ret, is_file, life,
                   loaded>>

\* The host calls send_message: up to the for loop.  The record of the
\* request before is dropped.
SendBegin(target) ==
    /\ life = "running"
    /\ send_pc # "loop"
    /\ send_pc' = "loop"
    /\ device_state' = target
    /\ todo' = DOMAIN devices
    /\ gateway' = EmptyBag
    /\ send_ret' = "-"
    /\ reg' = NoRegister
    /\ UNCHANGED <<devices, device_states, yaml_file, tracking_ids, last_to_s,
                   is_file, life, loaded>>

\* One iteration of the for loop; the dict yields its items in any order.
SendStep(push_id, outcome) ==
    /\ send_pc = "loop"
    /\ push_id \in todo
    /\ LET s == send_message_step(devices, device_states, device_state, todo,
                                  push_id, gateway, outcome)
       IN  /\ todo' = s.todo
           /\ gateway' = s.gateway
    /\ UNCHANGED <<devices, device_states, yaml_file, tracking_ids, reg,
                   last_to_s, send_pc, device_state, send_ret, is_file, life,
                   loaded>>

\* The for loop is over: return True.
SendReturn ==
    /\ send_pc = "loop"
    /\ todo = {}
    /\ send_pc' = "done"
    /\ send_ret' = "True"
    /\ UNCHANGED <<devices, device_states, yaml_file, tracking_ids, reg,
                   last_to_s, device_state, todo, gateway, is_file, life,
                   loaded>>

\* The host calls register and the write to the file raises an I/O error.
RegisterFails(push_id, device_name) ==
    /\ send_pc # "loop"
    /\ \/ push_id \in DOMAIN devices
       \/ Cardinality(DOMAIN devices) < MaxDevices
    /\ life = "running"
    /\ \E r \in register_fails(devices, yaml_file, push_id, device_name) :
          /\ devices' = r.devices
          /\ yaml_file' = r.yaml_file
          /\ is_file' = (is_file \/ r.opens # <<>>)
          /\ reg' = [push_id |-> push_id, name |-> device_name,
                     ret |-> r.ret, opens |-> r.opens,
                     before |-> DOMAIN devices, tick |-> 1 - reg.tick]
    /\ send_pc' = "idle"
    /\ device_state' = PyNone
    /\ gateway' = EmptyBag
    /\ send_ret' = "-"
    /\ UNCHANGED <<device_states, tracking_ids, last_to_s, todo, life, loaded>>

Next ==
    \/ \E push_id \in PushIds, device_name \in Names :
          Register(push_id, device_name)
    \/ \E entity_id \in tracking_ids, state \in States :
          StateChanged(entity_id, state)
    \/ \E target \in Targets : SendBegin(target)
    \/ \E push_id \in todo, outcome \in Outcomes : SendStep(push_id, outcome)
    \/ SendReturn

Spec == Init /\ [][Next]_vars

\* The service on a file system whose writes can fail.
NextIO ==
    \/ Next
    \/ \E push_id \in PushIds, device_name \in Names :
          RegisterFails(push_id, device_name)

SpecIO == Init /\ [][NextIO]_vars

\* The service from before its construction, its registry written and
\* loaded again at any time.
NextLoad ==
    \/ Construct
    \/ \E push_id \in LoadPushIds, device_name \in LoadNames :
          Register(push_id, device_name)
    \/ WriteDevices

SpecLoad == InitLoad /\ [][NextLoad]_vars

-----------------------------------------------------------------------------
(* Reading the file and the gateway, for the properties *)

\* The step is a register call.
RegisterStep == reg'.ret # "-" /\ reg'.tick # reg.tick

\* The step is an iteration of the for loop of send_message, on push_id.
SendStepOn(push_id) ==
    send_pc = "loop" /\ push_id \in todo /\ push_id \notin todo'

IsPrefix(a, b) == Len(a) <= Len(b) /\ SubSeq(b, 1, Len(a)) = a
IsSuffix(a, b) == Len(a) <= Len(b) /\ SubSeq(b, Len(b) - Len(a) + 1, Len(b)) = a
Contains(b, a) ==
    \E i \in 1..(Len(b) - Len(a) + 1) : SubSeq(b, i, i + Len(a) - 1) = a

\* The lines of a text, each under the position of its line end.
LineEnds(text) == {i \in 1..Len(text) : text[i] = "\n"}
Lines(text) ==
    LET ends == LineEnds(text)
    IN  [end \in ends |->
            LET before == {i \in ends : i < end}
                start == IF before = {} THEN 1
                         ELSE 1 + CHOOSE i \in before : \A j \in before : j <= i
            IN  SubSeq(text, start, end - 1)]

\* The line is the record of a push id.
IsLineOf(line, push_id) == IsPrefix(push_id.v \o <<":", " ", "{">>, line)

\* The line is a record with this name and this tracking id (None: without).
LineHasName(line, name) ==
    IF name = PyNone THEN ~Contains(line, NameKey)
    ELSE \/ Contains(line, <<"{">> \o NameKey \o name.v \o <<"}">>)
         \/ Contains(line, <<"{">> \o NameKey \o name.v \o <<",", " ">>)
LineHasTracking(line, tracking) ==
    IF tracking = PyNone THEN ~Contains(line, TrackingKey)
    ELSE IsSuffix(TrackingKey \o tracking.v \o <<"}">>, line)

\* The lines of the text that are the record of a push id.
RecordLines(text, push_id) ==
    LET lines == Lines(text)
    IN  {end \in DOMAIN lines : IsLineOf(lines[end], push_id)}

\* The text has one line for the push id, a record with this name and this
\* tracking id.
HasRecord(text, push_id, name, tracking) ==
    LET lines == Lines(text)
    IN  \E end \in DOMAIN lines :
           /\ \A other \in DOMAIN lines :
                 IsLineOf(lines[other], push_id) <=> other = end
           /\ LineHasName(lines[end], name)
           /\ LineHasTracking(lines[end], tracking)

\* text is one line, the record of the device.
IsRecordOf(text, device) ==
    /\ LineEnds(text) = {Len(text)}
    /\ HasRecord(text, device.device_push_id, device.device_name,
                 device.tracking_id)

\* text has one line for each device of the registry and no other, and the
\* line carries the name and the tracking id of the device.
IsFileOf(text, devs) ==
    /\ Cardinality(LineEnds(text)) = Cardinality(DOMAIN devs)
    /\ text # <<>> => text[Len(text)] = "\n"
    /\ \A k \in DOMAIN devs :
          HasRecord(text, k, devs[k].device_name, devs[k].tracking_id)

\* How many notifications for the push id the gateway was handed, in sent.
NotifiedIn(sent, push_id) ==
    CopiesIn([push_id |-> push_id, outcome |-> "delivered"], sent)
        + CopiesIn([push_id |-> push_id, outcome |-> "failed"], sent)
Notified(push_id) == NotifiedIn(gateway, push_id)
Failed(push_id) == BagIn([push_id |-> push_id, outcome |-> "failed"], gateway)

\* The entity the device is tracked by, and whether a callback for it came.
TrackedEntity(device) == DEVICE_TRACKER_DOMAIN \o <<".">> \o device.tracking_id.v
Reported(device) ==
    device.tracking_id # PyNone /\ TrackedEntity(device) \in DOMAIN last_to_s

-----------------------------------------------------------------------------
(* Properties of register *)

\* What a register step appended to the file, when the file only grew.
Appended == SubSeq(yaml_file', Len(yaml_file) + 1, Len(yaml_file'))

\* C1: every register call does exactly one of three things to the device
\* file: it does not open it and leaves it as it is, or it opens it once to
\* append the one record of a device, or it opens it once to rewrite it with
\* the whole registry; never an append and a rewrite in one call.
C1_OnePersistenceOutcome ==
    [][RegisterStep =>
        \/ /\ reg'.opens = <<>>
           /\ yaml_file' = yaml_file
        \/ /\ reg'.opens = <<"a">>
           /\ IsPrefix(yaml_file, yaml_file')
           /\ IsRecordOf(Appended, devices'[reg'.push_id])
        \/ /\ reg'.opens = <<"w+">>
           /\ IsFileOf(yaml_file', devices')]_vars

\* A register call has rewritten a file of two devices or more.
C1_Witness ==
    /\ reg.opens = <<"w+">>
    /\ Cardinality(DOMAIN devices) >= 2
    /\ IsFileOf(yaml_file, devices)

\* C2: a register call for a registered push id with a name other than the
\* stored one rewrites the file (no append), and the record that replaces
\* the old one, in the registry and in the file, has the new name and the
\* tracking id of the old one; no register call changes the tracking id of
\* a registered device.
C2_TrackingIdSticks ==
    [][RegisterStep =>
        /\ \A k \in DOMAIN devices :
              /\ k \in DOMAIN devices'
              /\ devices'[k].tracking_id = devices[k].tracking_id
        /\ (/\ reg'.push_id \in DOMAIN devices
            /\ devices[reg'.push_id].device_name # reg'.name)
           => /\ reg'.opens = <<"w+">>
              /\ devices'[reg'.push_id].device_name = reg'.name
              /\ HasRecord(yaml_file', reg'.push_id, reg'.name,
                           devices[reg'.push_id].tracking_id)]_vars

\* A device with the tracking id a was registered again under another name,
\* and the file was rewritten.
C2_Witness ==
    /\ reg.ret = "True"
    /\ reg.opens = <<"w+">>
    /\ reg.push_id = P
    /\ devices[P] = ApnsDevice(P, reg.name, TrackA)
    /\ HasRecord(yaml_file, P, reg.name, TrackA)

\* C4: register returns True whenever the call has a push_id, be it new,
\* registered under another name or registered under the same name, and
\* False only when the call has none.
C4_RegisterReturnsTrue ==
    reg.ret # "-" => reg.ret = (IF reg.push_id = PyNone THEN "False" ELSE "True")

\* C5: a register call for a push id that is not registered adds one device
\* to the registry, with the name of the call and no tracking id, opens the
\* file once to append the record of that device, rewrites nothing, and
\* leaves the other devices and what the file held as they were.
C5_NewDeviceAppends ==
    [][(/\ RegisterStep
        /\ reg'.push_id # PyNone
        /\ reg'.push_id \notin DOMAIN devices)
       => /\ DOMAIN devices' = DOMAIN devices \cup {reg'.push_id}
          /\ devices'[reg'.push_id] =
                [device_push_id |-> reg'.push_id, device_name |-> reg'.name,
                 tracking_id |-> PyNone]
          /\ \A k \in DOMAIN devices : devices'[k] = devices[k]
          /\ reg'.opens = <<"a">>
          /\ IsPrefix(yaml_file, yaml_file')
          /\ IsRecordOf(Appended, devices'[reg'.push_id])]_vars

\* A new device was registered next to the others, and the file has a
\* record more.
C5_Witness ==
    /\ reg.ret # "-"
    /\ reg.push_id = R
    /\ R \notin reg.before
    /\ Cardinality(reg.before) = MaxDevices - 1
    /\ reg.opens = <<"a">>
    /\ Cardinality(RecordLines(yaml_file, R)) = 1
    /\ Cardinality(LineEnds(yaml_file)) = MaxDevices

\* C6: a register call with the push id and the name of the registered
\* device does not open the file and leaves the registry and the file as
\* they are; so two calls in a row with the same data for a push id that was
\* not registered make one append and no rewrite, and one device is added.
C6_RegisterIdempotent ==
    [][RegisterStep =>
        /\ (/\ reg'.push_id \in DOMAIN devices
            /\ devices[reg'.push_id].device_name = reg'.name)
           => /\ reg'.opens = <<>>
              /\ devices' = devices
              /\ yaml_file' = yaml_file
        /\ (/\ reg.ret # "-"
            /\ reg.push_id # PyNone
            /\ reg.push_id \notin reg.before
            /\ reg'.push_id = reg.push_id
            /\ reg'.name = reg.name)
           => /\ reg.opens \o reg'.opens = <<"a">>
              /\ DOMAIN devices' = reg.before \cup {reg.push_id}
              /\ Cardinality(RecordLines(yaml_file', reg.push_id)) = 1]_vars

\* The second of two calls with the same data for a new push id was served.
C6_Witness ==
    /\ reg.ret = "True"
    /\ reg.opens = <<>>
    /\ reg.push_id = R
    /\ reg.before = {P, R}
    /\ devices[R].device_name = reg.name
    /\ Cardinality(RecordLines(yaml_file, R)) = 1

\* C7: a register call without push_id returns False and leaves the
\* registry, the file and the tracked states as they are.
C7_NoPushIdNoChange ==
    [][(RegisterStep /\ reg'.push_id = PyNone)
       => /\ reg'.ret = "False"
          /\ reg'.opens = <<>>
          /\ UNCHANGED <<devices, yaml_file, device_states>>]_vars

\* A call without push_id was refused, with devices registered and a state
\* tracked.
C7_Witness ==
    /\ reg.ret = "False"
    /\ reg.push_id = PyNone
    /\ reg.name # PyNone
    /\ devices # <<>>
    /\ device_states # <<>>

-----------------------------------------------------------------------------
(* Properties of send_message *)

\* C3: in a send_message with a target, the loop hands the gateway a
\* notification for a device exactly when the device has a tracking id and
\* the latest callback for its entity brought a state whose str() is the
\* str() of the target; a device with no tracking id, with no state tracked
\* or with another state gets none.
C3_FilteredDispatch ==
    [][\A d \in todo :
          (SendStepOn(d) /\ device_state # PyNone)
          => /\ NotifiedIn(gateway', d) \in {Notified(d), Notified(d) + 1}
             /\ NotifiedIn(gateway', d) = Notified(d) + 1
                <=> /\ Reported(devices[d])
                    /\ str(last_to_s[TrackedEntity(devices[d])])
                          = str(device_state)
             /\ \A other \in DOMAIN devices \ {d} :
                   NotifiedIn(gateway', other) = Notified(other)]_vars

\* A send_message with the target 1 is over: it notified the device whose
\* entity is in the state "1" and not a device without tracking id.
C3_Witness ==
    /\ send_pc = "done"
    /\ device_state = PyInt(<<"1">>)
    /\ \E d, e \in DOMAIN devices :
          /\ Reported(devices[d])
          /\ last_to_s[TrackedEntity(devices[d])] = One
          /\ Notified(d) = 1
          /\ devices[e].tracking_id = PyNone
          /\ Notified(e) = 0

\* C8: a send_message with a target, whatever the target, notifies no device
\* for whose entity no callback has come since the construction.
C8_NeverReportedExcluded ==
    (send_pc # "idle" /\ device_state # PyNone)
    => \A d \in DOMAIN devices :
          (devices[d].tracking_id # PyNone /\ ~Reported(devices[d]))
          => Notified(d) = 0

\* A send_message with the target "None" is over; a device is tracked by an
\* entity that never reported, and another entity has reported.
C8_Witness ==
    /\ send_pc = "done"
    /\ device_state = PyStr(<<"N", "o", "n", "e">>)
    /\ last_to_s # <<>>
    /\ \E d \in DOMAIN devices :
          /\ devices[d].tracking_id # PyNone
          /\ ~Reported(devices[d])
          /\ Notified(d) = 0

\* C9: a send_message without target hands the gateway one notification for
\* each device of the registry, tracked or not, whatever the tracked states.
C9_UnfilteredDispatch ==
    (send_pc = "done" /\ device_state = PyNone)
    => /\ \A d \in DOMAIN devices : Notified(d) = 1
       /\ BagCardinality(gateway) = Cardinality(DOMAIN devices)

\* A send_message without target is over, with a device without tracking id
\* and a device whose entity never reported both notified.
C9_Witness ==
    /\ send_pc = "done"
    /\ device_state = PyNone
    /\ \E d, e \in DOMAIN devices :
          /\ devices[d].tracking_id = PyNone
          /\ Notified(d) = 1
          /\ devices[e].tracking_id # PyNone
          /\ ~Reported(devices[e])
          /\ Notified(e) = 1

-----------------------------------------------------------------------------
(* Properties of the registry and of the tracked states *)

\* The step is one of send_message: its start, an iteration or its return.
DispatchStep == ~RegisterStep /\ (send_pc' # send_pc \/ todo' # todo)

\* C13: a register call whose push_id is the empty string is refused as a
\* call without push_id is: it returns False, adds no device to the
\* registry and writes nothing to the file.
C13_EmptyPushIdRefused ==
    [][(RegisterStep /\ reg'.push_id = PyStr(<<>>))
       => /\ reg'.ret = "False"
          /\ reg'.opens = <<>>
          /\ devices' = devices
          /\ yaml_file' = yaml_file]_vars

\* C14: the entity ids given to the state feed are the full tracking ids of
\* the devices the constructor loaded with a tracking id, and no step, be it
\* the registration of a new device or a change of name, changes them.
C14_SubscriptionFixed ==
    [][/\ tracking_ids =
             {TrackedEntity(loaded[k]) :
                 k \in {d \in DOMAIN loaded : loaded[d].tracking_id # PyNone}}
       /\ loaded' = loaded
       /\ tracking_ids' = tracking_ids]_vars

\* A device was registered after the construction, next to a loaded device
\* that has a tracking id and has got another name since.
C14_Witness ==
    /\ tracking_ids # {}
    /\ DOMAIN devices # DOMAIN loaded
    /\ \E k \in DOMAIN loaded :
          /\ loaded[k].tracking_id # PyNone
          /\ devices[k].device_name # loaded[k].device_name

\* C16: a callback for an entity stores str() of the new state under the
\* entity and changes no other entry; no step removes an entry, register and
\* send_message change none, and the entry of an entity is always str() of
\* the state of its latest callback.
C16_StateTracker ==
    [][/\ DOMAIN device_states = DOMAIN last_to_s
       /\ \A e \in DOMAIN last_to_s :
             device_states[e].t = "str" /\ device_states[e] = str(last_to_s[e])
       /\ DOMAIN device_states \subseteq DOMAIN device_states'
       /\ Cardinality({e \in DOMAIN device_states :
                          device_states'[e] # device_states[e]}
                      \cup (DOMAIN device_states' \ DOMAIN device_states)) <= 1
       /\ (RegisterStep \/ DispatchStep) => device_states' = device_states]_vars

\* Two entities have a state; the one of an entity came as the integer 1 and
\* is stored as the string "1".
C16_Witness ==
    /\ Cardinality(DOMAIN device_states) = 2
    /\ \E e \in DOMAIN device_states :
          last_to_s[e] = PyInt(<<"1">>) /\ device_states[e] = One

\* C17: every key of the registry is the push id of the device under it.
C17_KeyIsPushId ==
    \A k \in DOMAIN devices : devices[k].device_push_id = k

\* The registry holds a loaded device and a device registered since.
C17_Witness ==
    /\ DOMAIN loaded # {}
    /\ \E k \in DOMAIN devices \ DOMAIN loaded : devices[k].device_push_id = k
    /\ \E k \in DOMAIN loaded : devices[k].device_push_id = k

\* C18: in a service that was constructed on a file it could load, or on no
\* file, after any sequence of register calls with no failed write, the file
\* has one record line for each device of the registry and no other line,
\* and each line has the name and the tracking id of its device.
C18_FileAgrees ==
    life = "running"
    => /\ IsFileOf(yaml_file, devices)
       /\ devices # <<>> => is_file

\* C19: a device registered after the construction never has a tracking id,
\* a send_message with a target never notifies it, and a send_message
\* without target does.
C19_LateDeviceUntracked ==
    \A k \in DOMAIN devices \ DOMAIN loaded :
       /\ devices[k].tracking_id = PyNone
       /\ (send_pc # "idle" /\ device_state # PyNone) => Notified(k) = 0
       /\ (send_pc = "done" /\ device_state = PyNone) => Notified(k) = 1

\* A send_message with a target is over: it notified a loaded device and
\* not the device registered since the construction.
C19_Witness ==
    /\ send_pc = "done"
    /\ device_state # PyNone
    /\ \E k \in DOMAIN devices \ DOMAIN loaded, d \in DOMAIN loaded :
          Notified(k) = 0 /\ Notified(d) = 1

\* C20: while callbacks come between the iterations of a send_message with a
\* target, the loop can always go on without one; an iteration notifies its
\* device only if the state stored for the entity of the device is, at that
\* iteration, str() of the target; a callback that comes when send_message
\* has returned changes nothing of what the gateway was handed; and no step
\* of send_message changes the registry or the tracked states.
C20_DispatchAndCallbacks ==
    [][/\ send_pc = "loop"
          => ENABLED (SendReturn \/ \E push_id \in todo, outcome \in Outcomes :
                                       SendStep(push_id, outcome))
       /\ \A d \in todo :
             (/\ SendStepOn(d)
              /\ device_state # PyNone
              /\ NotifiedIn(gateway', d) > Notified(d))
             => /\ devices[d].tracking_id # PyNone
                /\ TrackedEntity(devices[d]) \in DOMAIN device_states
                /\ device_states[TrackedEntity(devices[d])] = str(device_state)
       /\ (send_pc = "done" /\ device_states' # device_states)
          => gateway' = gateway /\ send_pc' = "done"
       /\ DispatchStep
          => devices' = devices /\ device_states' = device_states]_vars

\* A send_message with a target is over; a device it notified is by now in
\* another state, and a device it did not notify is by now in the state of
\* the target.
C20_Witness ==
    /\ send_pc = "done"
    /\ device_state = PyInt(<<"1">>)
    /\ \E d, e \in DOMAIN devices :
          /\ Notified(d) = 1
          /\ device_states[TrackedEntity(devices[d])] = Home
          /\ devices[e].tracking_id # PyNone
          /\ Notified(e) = 0
          /\ dict_get(device_states, TrackedEntity(devices[e])) = One

-----------------------------------------------------------------------------
(* Properties of register on a file system whose writes can fail *)

\* The step is a register call that raised an I/O error.
RegisterFailsStep == reg'.ret = "IOError" /\ reg'.tick # reg.tick

\* The device a register call stores.
Stored(devs, push_id, name) ==
    ApnsDevice(push_id, name,
               IF push_id \in DOMAIN devs THEN devs[push_id].tracking_id
               ELSE PyNone)

\* C15 as stated: when the write of a register call fails, the registry
\* holds the new or replaced device, the file has no record of it, and the
\* file does not agree with the registry.
C15_FailedWriteDisagrees ==
    [][RegisterFailsStep
       => /\ reg'.push_id \in DOMAIN devices'
          /\ devices'[reg'.push_id] = Stored(devices, reg'.push_id, reg'.name)
          /\ ~HasRecord(yaml_file', reg'.push_id, reg'.name,
                        devices'[reg'.push_id].tracking_id)
          /\ ~IsFileOf(yaml_file', devices')]_vars

\* C15, amended: when the write of a register call fails, the call ends in
\* the I/O error and the registry holds the new or replaced device, all
\* other devices as before; if the file agreed with the registry before the
\* call, it does not agree with the registry after it, and has no record of
\* a device that is new.
C15_FailedWriteAfterAgreement ==
    [][RegisterFailsStep
       => /\ devices' # devices
          /\ devices' = dict_set(devices, reg'.push_id,
                                 Stored(devices, reg'.push_id, reg'.name))
          /\ IsFileOf(yaml_file, devices)
             => /\ ~IsFileOf(yaml_file', devices')
                /\ reg'.push_id \notin DOMAIN devices
                   => RecordLines(yaml_file', reg'.push_id) = {}]_vars

\* The rewrite for a changed device of a registry of two raised after its
\* first line: the file is not empty and does not agree with the registry.
C15_Witness ==
    /\ reg.ret = "IOError"
    /\ reg.opens = <<"w+">>
    /\ Cardinality(DOMAIN devices) = 2
    /\ Cardinality(LineEnds(yaml_file)) = 1
    /\ ~IsFileOf(yaml_file, devices)

-----------------------------------------------------------------------------
(* Properties of the construction *)

\* The step is the construction of the service.
ConstructStep == life \in {"new", "written"} /\ life' # life

\* C11: a registry written by write_devices and loaded by __init__ comes
\* back with the same push ids, and under each push id a device with the
\* same push id and the same name.
C11_RoundTrip ==
    [][(life = "written" /\ ConstructStep)
       => /\ life' = "running"
          /\ DOMAIN devices' = DOMAIN devices
          /\ \A k \in DOMAIN devices :
                /\ devices'[k].device_push_id = devices[k].device_push_id
                /\ devices'[k].device_name = devices[k].device_name]_vars

\* C12: on a malformed file the construction ends in ConfigFormatError; it
\* ends in no other error; a service that is constructed holds a device for
\* every line of its file, so neither an empty nor a partial registry for a
\* file that has records; and without a file it is constructed with an
\* empty registry.
C12_MalformedFileFails ==
    [][ConstructStep
       => /\ life' \in {"running", "ConfigFormatError"}
          /\ (is_file /\ yaml_file \in MalformedFiles)
             => life' = "ConfigFormatError"
          /\ life' = "running"
             => /\ yaml_file \notin MalformedFiles
                /\ IsFileOf(yaml_file, devices')
                /\ Cardinality(DOMAIN devices')
                      = Cardinality(LineEnds(yaml_file))
          /\ ~is_file => life' = "running" /\ devices' = <<>>]_vars

\* The construction failed on a file whose first line is a record and whose
\* second line is none.
C12_Witness ==
    /\ life = "ConfigFormatError"
    /\ Cardinality(LineEnds(yaml_file)) = 2
    /\ RecordLines(yaml_file, P) # {}
    /\ devices = <<>>

====
